---- MODULE Spec2Model ----
(***************************************************************************)
(* Model of nss-mdns' NSS entry points (src/src/nss.c): the forward lookup *)
(* _nss_mdns_gethostbyname2_r (and its default-family wrapper), the        *)
(* reverse lookup _nss_mdns_gethostbyaddr_r and the three accumulator      *)
(* callbacks.  One behaviour is one call: the entry point runs up to the   *)
(* blocking query, the collaborator invokes the callback zero or more      *)
(* times, the query returns and the entry point runs to its return.        *)
(*                                                                         *)
(* The caller's buffer is the sequence of its buflen bytes, the byte at     *)
(* offset i being buffer[i + 1] (Indeterminate before the first write); a  *)
(* write that the code makes at an offset outside [0, buflen) is recorded  *)
(* in overrun.  The                                                        *)
(* buffer sits at address BufferBase; a pointer is stored as the PtrSize   *)
(* little-endian bytes of the address it holds, NULL as address 0.         *)
(***************************************************************************)
EXTENDS Integers, Sequences, FiniteSets, TLC

\* ---- program constants ------------------------------------------------
MAX_ENTRIES == 16
\* sizeof(char*) == sizeof(void*) on the LP64 targets the module is built for
PtrSize == 8
\* sizeof(ipv4_address_t), sizeof(ipv6_address_t)
Ipv4Size == 4
Ipv6Size == 16

\* ---- bounds of the model ----------------------------------------------
\* caller-supplied names have 0..MaxNameLen characters
MaxNameLen == 1
\* buffer lengths run from 0 to MaxSlack bytes more than the largest record
\* the call can produce for the family asked for
MaxSlack == 1
\* the collaborator delivers at most MaxOffers results to the sink
MaxOffers == 17
\* the collaborator's answers to a reverse query are picked by a seed 0..MaxSeed
MaxSeed == 1

\* ---- values -----------------------------------------------------------
Builds == {"both", "ipv4only", "ipv6only"}
Families == {"AF_INET", "AF_INET6", "AF_UNIX"}
\* the address of the caller's buffer (any non-null address with room above it)
BufferBase == 4096
NULL == 0
\* a field of *result that the call has not assigned
Unset == 0 - 2

Min(a, b) == IF a < b THEN a ELSE b

\* the content of a byte nobody has written
Indeterminate == 0 - 1

\* byte j (0 the least significant) of the address p
RECURSIVE ByteOf(_, _)
ByteOf(p, j) == IF j = 0 THEN p % 256 ELSE ByteOf(p \div 256, j - 1)

\* a C string: the characters and the terminating NUL
CString(s) == s \o <<0>>
\* the object representation of a pointer: little-endian bytes of the address
PtrBytes(p) == [j \in 1..PtrSize |-> ByteOf(p, j - 1)]

\* the buffer after bytes are stored at offset off >= 0 (the part of them
\* that falls outside the buffer is not part of it)
Store(b, off, bytes) ==
    IF off >= Len(b) THEN b
    ELSE LET hi == Min(off + Len(bytes), Len(b))
         IN  SubSeq(b, 1, off) \o SubSeq(bytes, 1, hi - off) \o SubSeq(b, hi + 1, Len(b))
\* the offsets outside [0, blen) that storing n bytes at off touches
Spill(blen, off, n) == {i \in off..(off + n - 1) : i < 0 \/ i >= blen}

\* ---- reading the record back ------------------------------------------
\* the byte at address p
ByteAt(b, p) == b[p - BufferBase + 1]
ReadBytes(b, p, n) == [j \in 1..n |-> ByteAt(b, p + j - 1)]
RECURSIVE Decode(_, _)
Decode(bytes, j) ==
    IF j > Len(bytes) THEN 0 ELSE bytes[j] + 256 * Decode(bytes, j + 1)
\* the pointer stored at address p
ReadPtr(b, p) == Decode(ReadBytes(b, p, PtrSize), 1)
\* a NUL byte follows address p inside the buffer
HasNul(b, p) ==
    \E i \in DOMAIN b : i > p - BufferBase /\ b[i] = 0
StrLenAt(b, p) ==
    (CHOOSE i \in DOMAIN b :
        /\ i > p - BufferBase /\ b[i] = 0
        /\ \A j \in (p - BufferBase + 1)..(i - 1) : b[j] # 0) - (p - BufferBase + 1)
\* the C string at address p
ReadCString(b, p) == ReadBytes(b, p, StrLenAt(b, p))

\* ---- the caller's inputs ----------------------------------------------
NameOfLen(n) == [j \in 1..n |-> 101 + j]
CallerNames == {NameOfLen(n) : n \in 0..MaxNameLen}
\* the address handed to the reverse lookup: len bytes
CallerAddr(n) == [j \in 1..n |-> 191 + j]
CallerLens == {0, Ipv4Size, Ipv6Size}
\* the caller's buflen, forward lookup: up to a record with the longest name
\* and MAX_ENTRIES addresses of the family, and MaxSlack more
ByNameBuflens(a) ==
    0..(PtrSize + MaxNameLen + 1
        + MAX_ENTRIES * (IF a = "AF_INET" THEN Ipv4Size ELSE Ipv6Size)
        + PtrSize * (MAX_ENTRIES + 1) + MaxSlack)
\* the caller's buflen, reverse lookup: up to a record with the longest name
\* the collaborator answers with (3 characters), and MaxSlack more
ByAddrBuflens(a) ==
    0..(PtrSize + 3 + 1 + (IF a = "AF_INET" THEN Ipv4Size ELSE Ipv6Size)
        + PtrSize * 2 + MaxSlack)

\* ---- the collaborator's answers (query.c is not part of src/) -----------
\* the k-th address / name it hands to the sink; all pairwise distinct
Ipv4Answer(k) == <<10, 0, 0, k>>
Ipv6Answer(k) == [j \in 1..Ipv6Size |-> IF j = 1 THEN 254 ELSE IF j = 2 THEN 128 ELSE IF j = Ipv6Size THEN k ELSE 0]
NameAnswer(s, k) == [j \in 1..(1 + ((s + k) % 3)) |-> 96 + k]
\* mdns_open_socket(): a descriptor, or -1
OpenResults == {3, 0 - 1}
\* mdns_query_name / mdns_query_ipv4 / mdns_query_ipv6: 0, or negative
QueryResults == {0, 0 - 1}
\* what the query primitives promise: they return Ok or Error after handing
\* zero or more results to the sink, so any result may follow any number
\* of deliveries
QueryMayReturn(rr, delivered) == rr \in QueryResults /\ delivered >= 0

VARIABLES
    pc,        \* "idle", "query" (blocked in the query primitive), "done",
               \* "aborted" (failed assert), "crashed" (trap on a misaligned store)
    build,     \* compile-time variant: NSS_IPV4_ONLY, NSS_IPV6_ONLY or neither
    op,        \* "none", "byname", "byaddr"
    name, af, len, addr, buflen,   \* arguments of the call
    buffer, overrun,               \* the caller's buffer; offsets written outside it
    result,    \* struct hostent *result
    status, errnop, h_errnop,
    fd,        \* the local fd
    r,         \* the local r: what the query primitive returned (Unset before)
    u,         \* struct userdata
    seed,      \* picks the collaborator's answers
    offers,    \* callback invocations so far
    oom,       \* the heap is exhausted: strdup returns NULL from now on
    live,      \* strdup blocks allocated and not freed
    opens, closes, queries   \* invocations of mdns_open_socket, close, mdns_query_*

vars == <<pc, build, op, name, af, len, addr, buflen, buffer, overrun, result,
          status, errnop, h_errnop, fd, r, u, seed, offers, oom, live, opens,
          closes, queries>>

NoRecord == [h_name |-> Unset, h_aliases |-> Unset, h_addrtype |-> "unset",
             h_length |-> Unset, h_addr_list |-> Unset]

EmptyUserdata == [count |-> 0, data_len |-> 0, data |-> <<>>]

Init ==
    /\ pc = "idle"
    /\ build \in Builds
    /\ op = "none"
    /\ name = <<>> /\ af = "AF_UNIX" /\ len = 0 /\ addr = <<>> /\ buflen = 0
    /\ buffer = <<>> /\ overrun = {}
    /\ result = NoRecord
    /\ status = "UNAVAIL" /\ errnop = "unset" /\ h_errnop = "unset"
    /\ fd = 0 - 1
    /\ r = Unset
    /\ u = EmptyUserdata
    /\ seed = 0 /\ offers = 0 /\ oom = FALSE /\ live = 0
    /\ opens = 0 /\ closes = 0 /\ queries = 0


\* ---- pieces of the entry points ----------------------------------------
\* a family test that ignores the build variant
FamilySupported_anyBuild(b, a) == a = "AF_INET" \/ a = "AF_INET6"

\* the #ifdef'd family test (nss.c 82-88 and 212-218): TRUE when af is accepted
FamilySupported(b, a) ==
    IF b = "ipv4only" THEN a = "AF_INET"
    ELSE IF b = "ipv6only" THEN a = "AF_INET6"
    ELSE a = "AF_INET" \/ a = "AF_INET6"

\* address_length = af == AF_INET ? sizeof(ipv4_address_t) : sizeof(ipv6_address_t)
AddressLength(a) == IF a = "AF_INET" THEN Ipv4Size ELSE Ipv6Size

\* an early check that forgets the terminating NUL of the name
ByNameCoarseTooSmall_noNul(bl, n) == bl < PtrSize + Len(n)

\* the early check of the forward lookup (nss.c 96-98)
ByNameCoarseTooSmall(bl, n) == bl < PtrSize + Len(n) + 1

\* the early check of the reverse lookup (nss.c 225-227)
ByAddrCoarseTooSmall(bl, al) == bl < PtrSize + al

\* a late check that forgets the NULL that ends the pointer array
ByNamePreciseTooSmall_noTerminator(bl, index, ud) ==
    bl < index + ud.data_len + PtrSize * ud.count

\* the late check of the forward lookup (nss.c 137)
ByNamePreciseTooSmall(bl, index, ud) ==
    bl < index + ud.data_len + PtrSize * (ud.count + 1)

\* the late check of the reverse lookup (nss.c 260-264)
ByAddrPreciseTooSmall(bl, n0, al) ==
    bl < Len(n0) + 1 + PtrSize + al + PtrSize * 2

\* a test that lets -1 through
QueryFailed_offByOne(rr) == rr < 0 - 1

\* r < 0 (nss.c 117, 248)
QueryFailed(rr) == rr < 0

\* the status a failed query leaves the call with: status is not assigned
\* on that branch, so it is the initial NSS_STATUS_UNAVAIL (nss.c 76, 118-120)
QueryFailedStatus(st) == st

\* a finish that closes without testing fd
finish_unguarded(f) == 1

\* finish: if (fd >= 0) close(fd);  -- the number of close() calls made
finish(f) == IF f >= 0 THEN 1 ELSE 0

\* slots one byte apart instead of one address apart
AddrSlot_byteStride(astart, al, i) == BufferBase + astart + i

\* buffer+astart+address_length*i (nss.c 152)
AddrSlot(astart, al, i) == BufferBase + astart + al * i

\* the pointer array the forward lookup writes (nss.c 151-153)
ByNameAddrArray(astart, al, count) ==
    [i \in 1..(count + 1) |->
        IF i <= count THEN AddrSlot(astart, al, i - 1) ELSE NULL]

\* the pointer array the reverse lookup writes (nss.c 286-287)
ByAddrAddrArray(astart) == <<BufferBase + astart, NULL>>

\* the bytes of an array of pointers
PtrArrayBytes(ptrs) ==
    [j \in 1..(Len(ptrs) * PtrSize) |->
        PtrBytes(ptrs[((j - 1) \div PtrSize) + 1])[((j - 1) % PtrSize) + 1]]

\* the bytes of the union's address array: the entries, contiguous
RECURSIVE UnionBytes(_)
UnionBytes(d) == IF d = <<>> THEN <<>> ELSE Head(d) \o UnionBytes(Tail(d))

\* memcpy(dst, src, l): the first l bytes of src
Memcpy(src, l) == SubSeq(src, 1, l)

\* ---- the accumulator callbacks -----------------------------------------
ipv4_callback(ud, ipv4) ==
    IF ud.count >= MAX_ENTRIES THEN ud
    ELSE [count |-> ud.count + 1,
          data_len |-> ud.data_len + Ipv4Size,
          data |-> Append(ud.data, ipv4)]

ipv6_callback(ud, ipv6) ==
    IF ud.count >= MAX_ENTRIES THEN ud
    ELSE [count |-> ud.count + 1,
          data_len |-> ud.data_len + Ipv6Size,
          data |-> Append(ud.data, ipv6)]

\* strdup(n): a copy, or NULL when the allocation fails
strdup(n, ok) ==
    IF ok THEN [null |-> FALSE, str |-> n] ELSE [null |-> TRUE, str |-> <<>>]

\* a cap test that lets a seventeenth entry in
name_callback_offByOne(ud, n, ok) ==
    IF ud.count > MAX_ENTRIES THEN ud
    ELSE [count |-> ud.count + 1,
          data_len |-> ud.data_len + Len(n) + 1,
          data |-> Append(ud.data, strdup(n, ok))]

\* ok: whether the allocation strdup makes for an accepted entry succeeds
name_callback(ud, n, ok) ==
    IF ud.count >= MAX_ENTRIES THEN ud
    ELSE [count |-> ud.count + 1,
          data_len |-> ud.data_len + Len(n) + 1,
          data |-> Append(ud.data, strdup(n, ok))]

\* the entry a callback added to the accumulator is a live heap block
AddedCopy(ud, ud2) ==
    Len(ud2.data) > Len(ud.data) /\ ~ud2.data[Len(ud2.data)].null
\* the entry a callback added is the NULL of a failed allocation
AddedNull(ud, ud2) ==
    Len(ud2.data) > Len(ud.data) /\ ud2.data[Len(ud2.data)].null


\* Storing a char* through (char**) (buffer+index) is undefined when the
\* address is not aligned for a pointer: the store either works (x86) or the
\* process is killed by a trap (strict-alignment targets).  The outcomes of a
\* store at address p: TRUE is the trap.
StoreTraps(p) == IF p % PtrSize = 0 THEN {FALSE} ELSE BOOLEAN

\* the process dies in the middle of the call: nothing returns, nothing is closed
Crash(b, o, rec) ==
    /\ pc' = "crashed"
    /\ buffer' = b
    /\ overrun' = o
    /\ result' = rec
    /\ UNCHANGED <<status, errnop, h_errnop, closes>>

\* ---- leaving through the finish label -----------------------------------
\* sets the status and the two error outputs, closes the channel if it is
\* open and returns
Leave(st, e, he, f) ==
    /\ status' = st
    /\ errnop' = e
    /\ h_errnop' = he
    /\ closes' = closes + finish(f)
    /\ pc' = "done"

\* ---- forward lookup: entry up to the blocking query (nss.c 66-117) -------
ByNameEnter(n, a, bl) ==
    /\ pc = "idle"
    /\ op' = "byname" /\ name' = n /\ af' = a /\ buflen' = bl
    /\ buffer' = [i \in 1..bl |-> Indeterminate]
    /\ UNCHANGED <<build, len, addr, overrun, result, r, seed, offers, oom, live>>
    /\ IF ~FamilySupported(build, a)
       THEN /\ Leave(status, "EINVAL", "NO_RECOVERY", fd)
            /\ UNCHANGED <<fd, u, opens, queries>>
       ELSE IF ByNameCoarseTooSmall(bl, n)
       THEN /\ Leave("TRYAGAIN", "ERANGE", "NO_RECOVERY", fd)
            /\ UNCHANGED <<fd, u, opens, queries>>
       ELSE \E o \in OpenResults :
            /\ opens' = opens + 1
            /\ fd' = o
            /\ IF o < 0
               THEN /\ Leave(status, "errno", "NO_RECOVERY", o)
                    /\ UNCHANGED <<u, queries>>
               ELSE /\ u' = EmptyUserdata
                    /\ queries' = queries + 1
                    /\ pc' = "query"
                    /\ UNCHANGED <<status, errnop, h_errnop, closes>>

nss_mdns_gethostbyname2_r ==
    /\ pc = "idle"
    /\ \E n \in CallerNames, a \in Families :
          \E bl \in ByNameBuflens(a) : ByNameEnter(n, a, bl)

\* the default family of _nss_mdns_gethostbyname_r (nss.c 176-180)
DefaultFamily(b) == IF b = "ipv6only" THEN "AF_INET6" ELSE "AF_INET"

nss_mdns_gethostbyname_r ==
    /\ pc = "idle"
    /\ \E n \in CallerNames, bl \in ByNameBuflens(DefaultFamily(build)) :
          ByNameEnter(n, DefaultFamily(build), bl)

\* ---- the collaborator hands a result to the sink -------------------------
\* mdns_query_name is given ipv4_callback only when af == AF_INET and
\* ipv6_callback only when af == AF_INET6 (nss.c 117)
Ipv4Offer ==
    /\ pc = "query" /\ op = "byname" /\ af = "AF_INET"
    /\ offers < MaxOffers
    /\ u' = ipv4_callback(u, Ipv4Answer(offers + 1))
    /\ offers' = offers + 1
    /\ UNCHANGED <<pc, build, op, name, af, len, addr, buflen, buffer, overrun,
                   result, status, errnop, h_errnop, fd, r, seed, oom, live,
                   opens, closes, queries>>

Ipv6Offer ==
    /\ pc = "query" /\ op = "byname" /\ af = "AF_INET6"
    /\ offers < MaxOffers
    /\ u' = ipv6_callback(u, Ipv6Answer(offers + 1))
    /\ offers' = offers + 1
    /\ UNCHANGED <<pc, build, op, name, af, len, addr, buflen, buffer, overrun,
                   result, status, errnop, h_errnop, fd, r, seed, oom, live,
                   opens, closes, queries>>

NameOffer ==
    /\ pc = "query" /\ op = "byaddr"
    /\ offers < MaxOffers
    /\ offers' = offers + 1
    /\ \E ok \in (IF oom THEN {FALSE} ELSE BOOLEAN) :
          LET ud == name_callback(u, NameAnswer(seed, offers + 1), ok)
          IN  /\ u' = ud
              /\ oom' = (oom \/ AddedNull(u, ud))
              /\ live' = live + (IF AddedCopy(u, ud) THEN 1 ELSE 0)
    /\ UNCHANGED <<pc, build, op, name, af, len, addr, buflen, buffer, overrun,
                   result, status, errnop, h_errnop, fd, r, seed, opens, closes,
                   queries>>

\* ---- forward lookup: the query returns r (nss.c 117-163) -----------------
ByNameReturn(rr) ==
    /\ pc = "query" /\ op = "byname"
    /\ QueryMayReturn(rr, offers)
    /\ r' = rr
    /\ UNCHANGED <<build, op, name, af, len, addr, buflen, fd, u, seed, offers,
                   oom, live, opens, queries>>
    /\ IF QueryFailed(rr)
       THEN /\ Leave(QueryFailedStatus(status), "ETIMEDOUT", "HOST_NOT_FOUND", fd)
            /\ UNCHANGED <<buffer, overrun, result>>
       ELSE LET address_length == AddressLength(af)
                b1 == Store(buffer, 0, PtrBytes(NULL))
                s1 == Spill(buflen, 0, PtrSize)
                index1 == PtrSize
                b2 == Store(b1, index1, CString(name))
                s2 == Spill(buflen, index1, Len(name) + 1)
                index2 == index1 + Len(name) + 1
                rec == [result EXCEPT !.h_aliases = BufferBase, !.h_name = BufferBase + index1,
                                      !.h_addrtype = af, !.h_length = address_length]
            IN  \E trap1 \in StoreTraps(BufferBase) :
                IF trap1
                THEN Crash(buffer, overrun, result)
                ELSE IF ByNamePreciseTooSmall(buflen, index2, u)
                THEN /\ buffer' = b2
                     /\ overrun' = overrun \cup s1 \cup s2
                     /\ result' = rec
                     /\ Leave("TRYAGAIN", "ERANGE", "NO_RECOVERY", fd)
                ELSE LET astart == index2
                         l == u.count * address_length
                         b3 == Store(b2, astart, Memcpy(UnionBytes(u.data), l))
                         s3 == Spill(buflen, astart, l)
                         index3 == index2 + l
                         arr == PtrArrayBytes(ByNameAddrArray(astart, address_length, u.count))
                         b4 == Store(b3, index3, arr)
                         s4 == Spill(buflen, index3, Len(arr))
                     IN  \E trap2 \in StoreTraps(BufferBase + index3) :
                         IF trap2
                         THEN Crash(b3, overrun \cup s1 \cup s2 \cup s3, rec)
                         ELSE /\ buffer' = b4
                              /\ overrun' = overrun \cup s1 \cup s2 \cup s3 \cup s4
                              /\ result' = [rec EXCEPT !.h_addr_list = BufferBase + index3]
                              /\ Leave("SUCCESS", errnop, h_errnop, fd)

mdns_query_name_returns ==
    /\ pc = "query" /\ op = "byname"
    /\ \E rr \in QueryResults : ByNameReturn(rr)


\* ---- reverse lookup: entry up to the blocking query (nss.c 188-246) ------
ByAddrEnter(ad, ln, a, bl, sd) ==
    /\ pc = "idle"
    /\ op' = "byaddr" /\ addr' = ad /\ len' = ln /\ af' = a /\ buflen' = bl
    /\ seed' = sd
    /\ buffer' = [i \in 1..bl |-> Indeterminate]
    /\ u' = EmptyUserdata
    /\ UNCHANGED <<build, name, overrun, result, r, offers, oom, live>>
    /\ LET address_length == AddressLength(a)
       IN  IF ln # address_length \/ ~FamilySupported(build, a)
           THEN /\ Leave(status, "EINVAL", "NO_RECOVERY", fd)
                /\ UNCHANGED <<fd, opens, queries>>
           ELSE IF ByAddrCoarseTooSmall(bl, address_length)
           THEN /\ Leave("TRYAGAIN", "ERANGE", "NO_RECOVERY", fd)
                /\ UNCHANGED <<fd, opens, queries>>
           ELSE \E o \in OpenResults :
                /\ opens' = opens + 1
                /\ fd' = o
                /\ IF o < 0
                   THEN /\ Leave(status, "errno", "NO_RECOVERY", o)
                        /\ UNCHANGED queries
                   ELSE /\ queries' = queries + 1
                        /\ pc' = "query"
                        /\ status' = status
                        /\ errnop' = "EINVAL"
                        /\ h_errnop' = "NO_RECOVERY"
                        /\ UNCHANGED closes

nss_mdns_gethostbyaddr_r ==
    /\ pc = "idle"
    /\ \E ln \in CallerLens, a \in Families, sd \in 0..MaxSeed :
          \E bl \in ByAddrBuflens(a) : ByAddrEnter(CallerAddr(ln), ln, a, bl, sd)

\* assert(u.count > 0 && u.data.name[0]) (nss.c 259), in a build that keeps
\* assertions (NDEBUG not defined)
AssertHolds(ud) == ud.count > 0 /\ ~ud.data[1].null

\* ---- reverse lookup: the query returns r (nss.c 248-297) -----------------
ByAddrReturn(rr) ==
    /\ pc = "query" /\ op = "byaddr"
    /\ QueryMayReturn(rr, offers)
    /\ r' = rr
    /\ UNCHANGED <<build, op, name, af, len, addr, buflen, fd, u, seed, offers,
                   oom, live, opens, queries>>
    /\ IF QueryFailed(rr)
       THEN /\ Leave(QueryFailedStatus(status), "ETIMEDOUT", "HOST_NOT_FOUND", fd)
            /\ UNCHANGED <<buffer, overrun, result>>
       ELSE LET address_length == AddressLength(af)
                b1 == Store(buffer, 0, PtrBytes(NULL))
                s1 == Spill(buflen, 0, PtrSize)
                index1 == PtrSize
                rec1 == [result EXCEPT !.h_aliases = BufferBase]
            IN  \E trap1 \in StoreTraps(BufferBase) :
                IF trap1
                THEN Crash(buffer, overrun, result)
                ELSE IF ~AssertHolds(u)
                THEN \* the assertion fails: abort(), the call never returns
                     /\ pc' = "aborted"
                     /\ buffer' = b1
                     /\ overrun' = overrun \cup s1
                     /\ result' = rec1
                     /\ UNCHANGED <<status, errnop, h_errnop, closes>>
                ELSE IF ByAddrPreciseTooSmall(buflen, u.data[1].str, address_length)
                THEN /\ buffer' = b1
                     /\ overrun' = overrun \cup s1
                     /\ result' = rec1
                     /\ Leave("TRYAGAIN", "ERANGE", "NO_RECOVERY", fd)
                ELSE LET name0 == u.data[1].str
                         b2 == Store(b1, index1, CString(name0))
                         s2 == Spill(buflen, index1, Len(name0) + 1)
                         index2 == index1 + Len(name0) + 1
                         astart == index2
                         b3 == Store(b2, astart, Memcpy(addr, address_length))
                         s3 == Spill(buflen, astart, address_length)
                         index3 == index2 + address_length
                         arr == PtrArrayBytes(ByAddrAddrArray(astart))
                         b4 == Store(b3, index3, arr)
                         s4 == Spill(buflen, index3, Len(arr))
                         rec2 == [rec1 EXCEPT !.h_name = BufferBase + index1,
                                              !.h_addrtype = af,
                                              !.h_length = address_length]
                     IN  \E trap2 \in StoreTraps(BufferBase + index3) :
                         IF trap2
                         THEN Crash(b3, overrun \cup s1 \cup s2 \cup s3, rec2)
                         ELSE /\ buffer' = b4
                              /\ overrun' = overrun \cup s1 \cup s2 \cup s3 \cup s4
                              /\ result' = [rec2 EXCEPT !.h_addr_list = BufferBase + index3]
                              /\ Leave("SUCCESS", errnop, h_errnop, fd)

mdns_query_addr_returns ==
    /\ pc = "query" /\ op = "byaddr"
    /\ \E rr \in QueryResults : ByAddrReturn(rr)

Next ==
    \/ nss_mdns_gethostbyname2_r
    \/ nss_mdns_gethostbyname_r
    \/ nss_mdns_gethostbyaddr_r
    \/ Ipv4Offer
    \/ Ipv6Offer
    \/ NameOffer
    \/ mdns_query_name_returns
    \/ mdns_query_addr_returns

Spec == Init /\ [][Next]_vars


\* ======================================================================
\* Properties
\* ======================================================================

\* the families a build accepts, and the width of an address of a family
BuildFamilies(b) ==
    CASE b = "ipv4only" -> {"AF_INET"}
      [] b = "ipv6only" -> {"AF_INET6"}
      [] OTHER -> {"AF_INET", "AF_INET6"}
Width(a) == IF a = "AF_INET" THEN 4 ELSE 16

\* the channel was opened successfully
ChannelOpened == fd >= 0

\* C1: on every exit path of the forward and of the reverse lookup, a
\* channel that was opened successfully has been closed exactly once when
\* the call returns, and close is never called when the channel was never
\* opened or the open failed; no close happens before the return.
ChannelReleasedExactlyOnce ==
    /\ closes \in {0, 1}
    /\ ~ChannelOpened => closes = 0
    /\ pc \in {"idle", "query"} => closes = 0
    /\ (pc = "done" /\ ChannelOpened) => closes = 1

\* the reverse lookup returned TryAgain from the late check, channel closed
ChannelReleasedWitness ==
    /\ pc = "done" /\ op = "byaddr" /\ ChannelOpened
    /\ r = 0 /\ status = "TRYAGAIN" /\ closes = 1

\* the number of addresses the returned record lists
NumAddrs == IF op = "byname" THEN u.count ELSE 1

PointsInside(p, n) == p >= BufferBase /\ p + n <= BufferBase + buflen

\* C2: every byte a lookup writes lies at an offset in [0, buflen), and on
\* Success h_name, h_aliases, h_addr_list, the whole pointer array and every
\* address it points at lie inside [buffer, buffer+buflen).
WritesStayInsideBuffer ==
    /\ overrun = {}
    /\ (pc = "done" /\ status = "SUCCESS") =>
        /\ PointsInside(result.h_name, 1)
        /\ PointsInside(result.h_aliases, PtrSize)
        /\ PointsInside(result.h_addr_list, PtrSize * (NumAddrs + 1))
        /\ \A i \in 0..(NumAddrs - 1) :
              PointsInside(ReadPtr(buffer, result.h_addr_list + PtrSize * i),
                           Width(af))

\* a full accumulator written into a buffer with not one byte to spare
WritesStayInsideWitness ==
    /\ pc = "done" /\ status = "SUCCESS" /\ op = "byname" /\ af = "AF_INET"
    /\ u.count = MAX_ENTRIES
    /\ result.h_addr_list + PtrSize * (MAX_ENTRIES + 1) = BufferBase + buflen

\* the sizes of section 4.2 of the specification
ByNameRequired(L, N, W) == PtrSize + (L + 1) + N * W + PtrSize * (N + 1)
ByAddrRequired(L, W) == PtrSize + (L + 1) + W + 2 * PtrSize

\* C3: when the query succeeds the verdict is exact: the forward lookup
\* returns TryAgain iff buflen < ptr + (L+1) + N*W + ptr*(N+1), the reverse
\* lookup iff buflen < ptr + (L+1) + W + 2*ptr, and Success otherwise; a
\* buffer the early check rejects is below the required size whatever the
\* query would have delivered.
BufferVerdictExact ==
    /\ (pc = "done" /\ op = "byname" /\ r # Unset /\ r >= 0) =>
        LET req == ByNameRequired(Len(name), u.count, Width(af))
        IN  /\ u.count \in 0..16
            /\ status = "TRYAGAIN" <=> buflen < req
            /\ status = "SUCCESS" <=> buflen >= req
    /\ (pc = "done" /\ op = "byaddr" /\ r # Unset /\ r >= 0) =>
        LET req == ByAddrRequired(Len(u.data[1].str), Width(af))
        IN  /\ status = "TRYAGAIN" <=> buflen < req
            /\ status = "SUCCESS" <=> buflen >= req
    /\ (pc = "done" /\ op = "byname" /\ r = Unset /\ status = "TRYAGAIN") =>
        buflen < ByNameRequired(Len(name), 0, Width(af))
    /\ (pc = "done" /\ op = "byaddr" /\ r = Unset /\ status = "TRYAGAIN") =>
        buflen < ByAddrRequired(0, Width(af))

\* sixteen addresses and a buffer one byte short of the required size
BufferVerdictWitness ==
    /\ pc = "done" /\ op = "byname" /\ r = 0 /\ u.count = 16
    /\ buflen = ByNameRequired(Len(name), 16, Width(af)) - 1
    /\ status = "TRYAGAIN"


\* the k-th result the collaborator handed to the sink of this call
Answer(k) ==
    IF op = "byaddr" THEN NameAnswer(seed, k)
    ELSE IF af = "AF_INET" THEN Ipv4Answer(k) ELSE Ipv6Answer(k)

\* the number of offers the accumulator accepted: the first 16
Accepted == IF offers < 16 THEN offers ELSE 16

\* entry i (from 0) of the address list of the returned record
AddrListEntry(i) == ReadPtr(buffer, result.h_addr_list + PtrSize * i)

\* C4: after Success the record reads back as the inputs: the name is the
\* source name, NUL-terminated (the queried name; for a reverse lookup the
\* first name offered); entry i of the address list points at the W bytes of
\* the i-th accepted address (for a reverse lookup the caller's address);
\* the list holds NULL at index count (1 for reverse); the alias list is
\* empty; family and width are the requested family and its width.
RecordRoundTrip ==
    (pc = "done" /\ status = "SUCCESS") =>
        /\ result.h_addrtype = af
        /\ result.h_length = Width(af)
        /\ ReadPtr(buffer, result.h_aliases) = NULL
        /\ HasNul(buffer, result.h_name)
        /\ IF op = "byname"
           THEN /\ ReadCString(buffer, result.h_name) = name
                /\ u.count = Accepted
                /\ \A i \in 0..(Accepted - 1) :
                      /\ AddrListEntry(i) # NULL
                      /\ ReadBytes(buffer, AddrListEntry(i), Width(af)) = Answer(i + 1)
                /\ AddrListEntry(Accepted) = NULL
           ELSE /\ ReadCString(buffer, result.h_name) = Answer(1)
                /\ AddrListEntry(0) # NULL
                /\ ReadBytes(buffer, AddrListEntry(0), Width(af)) = addr
                /\ AddrListEntry(1) = NULL

\* a forward IPv4 lookup that was offered more than sixteen addresses
RecordRoundTripWitness ==
    /\ pc = "done" /\ status = "SUCCESS" /\ op = "byname" /\ af = "AF_INET"
    /\ offers > 16 /\ Len(name) > 0

\* C5: when the query primitive returns a negative result, the status the
\* call returns is NotFound.
NegativeResultIsNotFound ==
    (pc = "done" /\ r # Unset /\ r < 0) => status = "NOTFOUND"

\* the argument check of the claim: the family is one the build supports
\* and, for a reverse lookup, the address length is the family's width
ArgumentsValid ==
    /\ af \in BuildFamilies(build)
    /\ op = "byaddr" => len = Width(af)

\* C6: a forward lookup with a family the build does not support, and a
\* reverse lookup with an unsupported family or an address length that is
\* not the family's width, ends with EINVAL and never invokes the open or
\* the query primitives.
InvalidArgumentTouchesNothing ==
    (pc # "idle" /\ ~ArgumentsValid) =>
        /\ pc = "done"
        /\ errnop = "EINVAL"
        /\ status # "SUCCESS"
        /\ opens = 0 /\ queries = 0 /\ offers = 0

\* a reverse lookup for an IPv4 address said to be sixteen bytes long
InvalidArgumentWitness ==
    /\ pc = "done" /\ op = "byaddr" /\ af = "AF_INET" /\ len = 16
    /\ af \in BuildFamilies(build)
    /\ errnop = "EINVAL"

\* no byte of the caller's buffer has been written
BufferUntouched == \A i \in DOMAIN buffer : buffer[i] = Indeterminate
\* exactly the first n bytes of the caller's buffer have been written
WrittenPrefix(n) ==
    \A i \in DOMAIN buffer : (buffer[i] # Indeterminate) <=> i <= n

\* C7 as stated: a lookup that does not return Success has written no byte
\* of the buffer and no field of the record.
NoRecordUnlessSuccess ==
    (pc = "done" /\ status # "SUCCESS") =>
        /\ BufferUntouched
        /\ result = NoRecord

\* C7 as amended: a lookup that does not return Success never assigns
\* h_addr_list and writes no address and no pointer array; it writes nothing
\* at all unless the query succeeded, and when the late check fails it has
\* written only the alias terminator and h_aliases and, in the forward
\* lookup, the name, h_name, h_addrtype and h_length.
NoAddressesUnlessSuccess ==
    (pc = "done" /\ status # "SUCCESS") =>
        /\ result.h_addr_list = Unset
        /\ (r = Unset \/ r < 0) => (BufferUntouched /\ result = NoRecord)
        /\ (r # Unset /\ r >= 0) =>
            /\ status = "TRYAGAIN"
            /\ result.h_aliases = BufferBase
            /\ IF op = "byname"
               THEN /\ WrittenPrefix(PtrSize + Len(name) + 1)
                    /\ result.h_name = BufferBase + PtrSize
               ELSE /\ WrittenPrefix(PtrSize)
                    /\ result.h_name = Unset /\ result.h_length = Unset

\* the forward lookup's late check failed
NoAddressesWitness ==
    /\ pc = "done" /\ op = "byname" /\ r = 0 /\ status = "TRYAGAIN"
    /\ u.count > 0

RECURSIVE SumSizes(_)
\* the payload bytes of the first n results handed to the sink
SumSizes(n) ==
    IF n = 0 THEN 0
    ELSE SumSizes(n - 1)
         + (IF op = "byaddr" THEN Len(Answer(n)) + 1 ELSE Width(af))

\* C8: for any sequence of offers to one accumulator, 0 <= count <= 16,
\* the stored entries are the first count results offered, in order, and
\* data_len is the sum of their sizes (4 or 16 per address, strlen+1 per
\* name): offers made when count = 16 change nothing.
AccumulatorBounded ==
    /\ u.count = Accepted
    /\ u.count >= 0 /\ u.count <= 16
    /\ Len(u.data) = u.count
    /\ u.data_len = SumSizes(u.count)
    /\ \A i \in 1..Len(u.data) :
          IF op = "byaddr"
          THEN u.data[i].null \/ u.data[i].str = Answer(i)
          ELSE u.data[i] = Answer(i)

\* a name accumulator that was offered a seventeenth name
AccumulatorWitness ==
    /\ op = "byaddr" /\ offers = 17 /\ u.count = 16 /\ ~oom

\* C9: in the reverse lookup the assertion count > 0 and name[0] != NULL
\* holds whenever the query primitive returned a non-negative result.
AssertionAlwaysHolds ==
    (op = "byaddr" /\ r # Unset /\ r >= 0) =>
        (u.count > 0 /\ ~u.data[1].null /\ pc # "aborted")

\* C10: every name copy the accumulator allocated has been released when
\* the reverse lookup returns.
NameCopiesReleased ==
    pc = "done" => live = 0

====
